---- MODULE Spec2Model ----
(***************************************************************************)
(* Phase-equilibrium solver of the water container                         *)
(* (src/src/container/mod.rs, src/src/substance/water.rs,                  *)
(* src/src/interpolation_table/mod.rs).                                    *)
(*                                                                         *)
(* The program computes in f64.  The model computes on a fixed grid with   *)
(* integer arithmetic rounding down, in these units:                       *)
(*   temperature      1e-5 K   (TempScale units per kelvin)                *)
(*   pressure         1e-3 mbar = 0.1 Pa                                   *)
(*   density          1e-7 g/cm^3                                          *)
(*   mass             one grid step; the bisection tolerance of 1e-10 kg   *)
(*                    is Tolerance grid steps                              *)
(*   volume           the volume one mass step takes at 1 g/cm^3           *)
(* All formulas of the program are homogeneous in (mass, volume), so the   *)
(* mass step only fixes the meaning of Tolerance.  Products that exceed    *)
(* 31 bits are evaluated exactly by MulDivQR before rounding.              *)
(***************************************************************************)
EXTENDS Integers, Sequences, FiniteSets, TLC

VARIABLES
    volume, water, steam,   \* the fields of the WaterContainer
    pc,                     \* "idle", or the loop evaporate_condensate is in
    left, right, middle,    \* the locals of the running binary search
    iteration,              \* the iteration counter of the running search
    test,                   \* test_container after the last probe
    probe,                  \* what the last probe told the search
    evaporation_bound,      \* water_evaporation_mass before the search
    condensation_bound,     \* steam_condensation_mass before the search
    evaporation_mass,       \* water_evaporation_mass after the search
    panicked,               \* an assertion failed: the program has aborted
    initial,                \* history: the container as constructed
    pre,                    \* history: the container when the call began
    errors,                 \* history: failed probes of the call
    exchanges,              \* history: simultaneous_mass_exchange calls of the call
    calls,                  \* history: calls of evaporate_condensate begun
    call,                   \* a single operation applied on its own: its inputs
    ret                     \* ... and what it returned

vars == <<volume, water, steam, pc, left, right, middle, iteration, test, probe,
          evaporation_bound, condensation_bound, evaporation_mass, panicked,
          initial, pre, errors, exchanges, calls, call, ret>>

-----------------------------------------------------------------------------
(* Exact wide arithmetic on the grid                                       *)

RECURSIVE MulModQR(_, _, _, _)
\* <<q, r>> with a * b = q * c + r and 0 <= r < c, for 0 <= a < c, b >= 0
\* and a radix k >= 2 with 2 * k * c <= 2^31, without forming a * b.
MulModQR(a, b, c, k) ==
    IF b <= 2147483647 \div (a + 1)
    THEN <<(a * b) \div c, (a * b) % c>>
    ELSE LET h  == MulModQR(a, b \div k, c, k)
             r2 == k * h[2] + a * (b % k)
         IN  <<k * h[1] + r2 \div c, r2 % c>>

\* <<q, r>> with a * b = q * c + r and 0 <= r < c, for a, b >= 0 and
\* 0 < c <= 2^29.
MulDivQR(a, b, c) ==
    LET hi == IF a >= b THEN a ELSE b
        lo == IF a >= b THEN b ELSE a
        h  == MulModQR(hi % c, lo, c, 1073741824 \div c)
    IN  <<(hi \div c) * lo + h[1], h[2]>>

\* floor(a * b / c)
MulDiv(a, b, c) == MulDivQR(a, b, c)[1]

\* floor((a1 * b1 + a2 * b2) / c)
MulAddDiv(a1, b1, a2, b2, c) ==
    LET x == MulDivQR(a1, b1, c)
        y == MulDivQR(a2, b2, c)
    IN  x[1] + y[1] + (x[2] + y[2]) \div c

-----------------------------------------------------------------------------
(* Units                                                                   *)

TempScale == 100000

\* 0 degree Celsius in grid units: 273.15 K
CelsiusOffset == 27315000

\* The table key 1e50 (degree Celsius), which no grid value reaches.
Huge == 2000000000

-----------------------------------------------------------------------------
(* interpolation_table                                                     *)

\* LimitBehaviour
Clamp == "Clamp"
Panic == "Panic"

\* new that accepts equal consecutive keys.
TableNewAccepts_NonDecreasing(table) ==
    /\ Len(table) > 0
    /\ \A i \in 1..(Len(table) - 1) : table[i][1] <= table[i + 1][1]

\* The assertions of LinearInterpolationTable::new.
TableNewAccepts(table) ==
    /\ Len(table) > 0
    /\ \A i \in 1..(Len(table) - 1) : table[i][1] < table[i + 1][1]

\* binary_search_by on the keys: Ok(index) of the equal key, or Err(index) of
\* the first larger key (indices are 1-based here).
BinarySearch(table, x) ==
    IF \E i \in 1..Len(table) : table[i][1] = x
    THEN [ok |-> TRUE, index |-> CHOOSE i \in 1..Len(table) : table[i][1] = x]
    ELSE [ok |-> FALSE,
          index |-> 1 + Cardinality({i \in 1..Len(table) : table[i][1] < x})]

\* The interpolation with the two weights exchanged.
Interpolate_SwappedWeights(key1, value1, key2, value2, x) ==
    IF key2 = Huge THEN value1
    ELSE LET base == IF value1 <= value2 THEN value1 ELSE value2
         IN  base + MulAddDiv(x - key1, value1 - base, key2 - x, value2 - base,
                              key2 - key1)

\* ((key2 - x) * value1 + (x - key1) * value2) / (key2 - key1).  On the last
\* segment of the boiling curve key2 is 1e50: the weight of value2 is below
\* 1e-40 and the result is value1 on the grid.  The two weights add up to
\* key2 - key1, so the smaller value is taken out of the quotient unchanged,
\* which keeps the products non-negative for values below zero (degree
\* Celsius).
Interpolate(key1, value1, key2, value2, x) ==
    IF key2 = Huge THEN value1
    ELSE LET base == IF value1 <= value2 THEN value1 ELSE value2
         IN  base + MulAddDiv(key2 - x, value1 - base, x - key1, value2 - base,
                              key2 - key1)

\* get that clamps whatever the limit behaviour is.
TableGet_AlwaysClamps(limit_behaviour, table, x) ==
    IF x < table[1][1] THEN [panic |-> FALSE, value |-> table[1][2]]
    ELSE IF x > table[Len(table)][1]
    THEN [panic |-> FALSE, value |-> table[Len(table)][2]]
    ELSE LET s == BinarySearch(table, x)
         IN  IF s.ok THEN [panic |-> FALSE, value |-> table[s.index][2]]
             ELSE [panic |-> FALSE,
                   value |-> Interpolate(table[s.index - 1][1], table[s.index - 1][2],
                                         table[s.index][1], table[s.index][2], x)]

\* LinearInterpolationTable::get; "panic" stands for the failed assertion.
TableGet(limit_behaviour, table, x) ==
    IF x < table[1][1]
    THEN IF limit_behaviour = Clamp
         THEN [panic |-> FALSE, value |-> table[1][2]]
         ELSE [panic |-> TRUE, value |-> 0]
    ELSE IF x > table[Len(table)][1]
    THEN IF limit_behaviour = Clamp
         THEN [panic |-> FALSE, value |-> table[Len(table)][2]]
         ELSE [panic |-> TRUE, value |-> 0]
    ELSE LET s == BinarySearch(table, x)
         IN  IF s.ok THEN [panic |-> FALSE, value |-> table[s.index][2]]
             ELSE [panic |-> FALSE,
                   value |-> Interpolate(table[s.index - 1][1], table[s.index - 1][2],
                                         table[s.index][1], table[s.index][2], x)]

-----------------------------------------------------------------------------
(* substance::water constants                                              *)

\* Celsius -> g/cm^3
DENSITY_BY_TEMPERATURE_RAW ==
    << <<0, 9998395>>, <<398400, 9999720>>, <<400000, 9999720>>, <<500000, 9999600>>,
       <<1000000, 9997026>>, <<1500000, 9991026>>, <<2000000, 9982071>>, <<2200000, 9977735>>,
       <<2500000, 9970479>>, <<3000000, 9956502>>, <<3500000, 9940300>>, <<4000000, 9922100>>,
       <<4500000, 9902200>>, <<5000000, 9880400>>, <<5500000, 9857000>>, <<6000000, 9832100>>,
       <<6500000, 9805600>>, <<7000000, 9777800>>, <<7500000, 9748600>>, <<8000000, 9718000>>,
       <<8500000, 9686200>>, <<9000000, 9653100>>, <<9500000, 9618900>>, <<10000000, 9583500>>,
       <<12000000, 9435000>>, <<14000000, 9262000>>, <<16000000, 9075000>>, <<18000000, 8870000>>,
       <<20000000, 8647000>>, <<22500000, 8338000>>, <<25000000, 7990000>>, <<27500000, 7591000>>,
       <<30000000, 7122000>>, <<35000000, 5810000>>, <<37300000, 4434000>>, <<37394600, 3888000>>,
       <<40000000, 1222000>>, <<45000000, 904300>>, <<50000000, 765000>>, <<60000000, 614500>>,
       <<70000000, 526000>>, <<80000000, 464500>>, <<90000000, 418000>>, <<100000000, 381000>>,
       <<200000000, 208500>> >>

\* mbar -> Celsius
BOILING_POINT_BY_PRESSURE_RAW ==
    << <<3, -6800000>>, <<17, -5700000>>, <<30, -5100000>>, <<70, -4600000>>,
       <<130, -4000000>>, <<170, -3700000>>, <<340, -3100000>>, <<400, -2900000>>,
       <<670, -2400000>>, <<1330, -1700000>>, <<1690, -1400000>>, <<3390, -600000>>,
       <<6100, 0>>, <<10160, 700000>>, <<13550, 1200000>>, <<16930, 1500000>>,
       <<20320, 1800000>>, <<23710, 2100000>>, <<27090, 2200000>>, <<30480, 2400000>>,
       <<33860, 2700000>>, <<42330, 3000000>>, <<73480, 4000000>>, <<123300, 5000000>>,
       <<133300, 5200000>>, <<199100, 6000000>>, <<266600, 6700000>>, <<311500, 7000000>>,
       <<473400, 8000000>>, <<666600, 8900000>>, <<700600, 9000000>>, <<846600, 9600000>>,
       <<1014200, 10030000>>, <<1433800, 11000000>>, <<1986700, 12000000>>, <<2702800, 13000000>>,
       <<3615400, 14000000>>, <<4761600, 15000000>>, <<6182300, 16000000>>, <<10028000, 18000000>>,
       <<15549000, 20000000>>, <<23196000, 22000000>>, <<33469000, 24000000>>, <<46923000, 26000000>>,
       <<64166000, 28000000>>, <<85879000, 30000000>>, <<112840000, 32000000>>, <<146010000, 34000000>>,
       <<186660000, 36000000>>, <<210440000, 37000000>>, <<210441000, Huge>> >>


DENSITY_BY_TEMPERATURE == DENSITY_BY_TEMPERATURE_RAW

BOILING_POINT_BY_PRESSURE == BOILING_POINT_BY_PRESSURE_RAW

\* The raw curve with its columns swapped.
SATURATION_PRESSURE_BY_TEMPERATURE ==
    [i \in 1..Len(BOILING_POINT_BY_PRESSURE_RAW) |->
        <<BOILING_POINT_BY_PRESSURE_RAW[i][2], BOILING_POINT_BY_PRESSURE_RAW[i][1]>>]

density_by_temperature(temperature) ==
    TableGet(Clamp, DENSITY_BY_TEMPERATURE, temperature - CelsiusOffset).value

saturation_pressure_by_temperature(temperature) ==
    TableGet(Clamp, SATURATION_PRESSURE_BY_TEMPERATURE, temperature - CelsiusOffset).value

\* boiling_point_by_pressure reading the table value as kelvin.
boiling_point_by_pressure_Kelvin(pressure) ==
    TableGet(Clamp, BOILING_POINT_BY_PRESSURE_RAW, pressure).value

\* Microbar to the thermodynamic temperature on the grid.
boiling_point_by_pressure(pressure) ==
    CelsiusOffset + TableGet(Clamp, BOILING_POINT_BY_PRESSURE_RAW, pressure).value

\* 461.5 J/(kg K), in tenths
SPECIAL_IDEAL_GAS_CONSTANT == 4615

\* heat_capacity(): 4180 J/(kg K)
HeatCapacity == 4180

\* phase_change_energy(): 2230 J/g
PhaseChangeEnergy == 2230

-----------------------------------------------------------------------------
(* substance::water::Water                                                 *)

\* Density grid steps per g/cm^3.
DensityScale == 10000000

\* The f64 NaN as a temperature (0/0 in Add<Energy> on an empty body).
NaN == -999999999

Water_new(mass, temperature) == [mass |-> mass, temperature |-> temperature]

Water_zero == [mass |-> 0, temperature |-> 0]

\* mass / density
Water_volume(w) ==
    MulDiv(w.mass, DensityScale, density_by_temperature(w.temperature))

\* mass * R' * temperature / volume, by the IEEE rules for a zero divisor.
Water_pressure(w, vol) ==
    IF vol = 0
    THEN IF w.mass = 0 \/ w.temperature = 0
         THEN [kind |-> "nan", value |-> 0]
         ELSE [kind |-> "inf", value |-> 0]
    ELSE LET s == MulDivQR(w.mass, w.temperature, vol)
         IN  [kind |-> "num",
              value |-> MulAddDiv(s[1], SPECIAL_IDEAL_GAS_CONSTANT,
                                  MulDiv(s[2], SPECIAL_IDEAL_GAS_CONSTANT, vol), 1,
                                  TempScale \div 1000)]

\* f64 comparisons of a pressure with a finite one: false on NaN.
PressureGt(p, x) == p.kind = "inf" \/ (p.kind = "num" /\ p.value > x)
PressureLt(p, x) == p.kind = "num" /\ p.value < x

Water_saturation_pressure(w) == saturation_pressure_by_temperature(w.temperature)

\* impl Add for Water with the plain mean of the two temperatures.
Water_add_Unweighted(self, rhs) ==
    LET mass == self.mass + rhs.mass
    IN  [mass |-> mass,
         temperature |->
            IF mass > 0
            THEN (self.temperature + rhs.temperature) \div 2
            ELSE 0]

\* impl Add for Water
Water_add(self, rhs) ==
    LET mass == self.mass + rhs.mass
    IN  [mass |-> mass,
         temperature |->
            IF mass > 0
            THEN MulAddDiv(self.mass, self.temperature, rhs.mass, rhs.temperature, mass)
            ELSE 0]

\* impl Sub<Mass> for Water
Water_sub_mass(self, rhs) ==
    [panic |-> ~(rhs <= self.mass),
     value |-> [mass |-> self.mass - rhs, temperature |-> self.temperature]]

\* Water::remove building the water split off from Water::zero(), so that
\* it loses the receiver's temperature.
Water_remove_DropsTemperature(self, mass) ==
    [panic |-> ~(mass <= self.mass),
     self |-> [mass |-> self.mass - mass, temperature |-> self.temperature],
     out |-> [mass |-> mass, temperature |-> Water_zero.temperature]]

\* Water::remove: the receiver afterwards and the water split off.
Water_remove(self, mass) ==
    [panic |-> ~(mass <= self.mass),
     self |-> [mass |-> self.mass - mass, temperature |-> self.temperature],
     out |-> [mass |-> mass, temperature |-> self.temperature]]

\* phase_change_energy() * mass, in J/g times mass steps
PhaseChangeEnergyOf(mass) == PhaseChangeEnergy * mass

\* rhs / heat_capacity() / mass as a temperature difference on the grid:
\* |rhs| * 1000 * TempScale / (HeatCapacity * mass), numerator and denominator
\* divided through by 20.
TemperatureDifference(rhs, mass) ==
    LET mag == IF rhs < 0 THEN -rhs ELSE rhs
        s   == MulDivQR(mag, (10 * TempScale) \div 20, mass)
        d   == MulAddDiv(s[1], 100, MulDiv(s[2], 100, mass), 1, HeatCapacity \div 20)
    IN  IF rhs < 0 THEN -d ELSE d

\* impl Add<Energy> for Water
Water_add_energy(self, rhs) ==
    [mass |-> self.mass,
     temperature |-> IF self.mass = 0 THEN NaN
                     ELSE self.temperature + TemperatureDifference(rhs, self.mass)]

\* impl Sub<Energy> for Water
Water_sub_energy(self, rhs) == Water_add_energy(self, -rhs)

\* Water::evaporate splitting the mass off before the cooling, so that the
\* departing water keeps the old temperature.
Water_evaporate_SplitsBeforeCooling(self, mass) ==
    LET cooled_self == Water_sub_energy(self, PhaseChangeEnergyOf(mass))
    IN  IF cooled_self.temperature # NaN /\ cooled_self.temperature <= 0
        THEN [panic |-> ~(mass >= 0 /\ mass <= self.mass),
              err |-> TRUE, self |-> self, out |-> Water_zero]
        ELSE [panic |-> ~(mass >= 0 /\ mass <= self.mass),
              err |-> FALSE,
              self |-> Water_sub_mass(cooled_self, mass).value,
              out |-> [mass |-> mass, temperature |-> self.temperature]]

\* Water::evaporate testing the receiver's temperature before the cooling
\* instead of the cooled temperature.
Water_evaporate_TestsUncooled(self, mass) ==
    LET cooled_self == Water_sub_energy(self, PhaseChangeEnergyOf(mass))
    IN  IF self.temperature <= 0
        THEN [panic |-> ~(mass >= 0 /\ mass <= self.mass),
              err |-> TRUE, self |-> self, out |-> Water_zero]
        ELSE [panic |-> ~(mass >= 0 /\ mass <= self.mass),
              err |-> FALSE,
              self |-> Water_sub_mass(cooled_self, mass).value,
              out |-> [mass |-> mass, temperature |-> cooled_self.temperature]]

\* Water::evaporate assigning the cooled receiver before the test, so that an
\* Err leaves the receiver cooled.
Water_evaporate_CoolsBeforeTest(self, mass) ==
    LET cooled_self == Water_sub_energy(self, PhaseChangeEnergyOf(mass))
    IN  IF cooled_self.temperature # NaN /\ cooled_self.temperature <= 0
        THEN [panic |-> ~(mass >= 0 /\ mass <= self.mass),
              err |-> TRUE, self |-> cooled_self, out |-> Water_zero]
        ELSE [panic |-> ~(mass >= 0 /\ mass <= self.mass),
              err |-> FALSE,
              self |-> Water_sub_mass(cooled_self, mass).value,
              out |-> [mass |-> mass, temperature |-> cooled_self.temperature]]

\* Water::evaporate: Err(NonPositiveTemperature) leaves the receiver as it
\* was; Ok gives the cooled receiver less the mass and the mass split off.
Water_evaporate(self, mass) ==
    LET cooled_self == Water_sub_energy(self, PhaseChangeEnergyOf(mass))
    IN  IF cooled_self.temperature # NaN /\ cooled_self.temperature <= 0
        THEN [panic |-> ~(mass >= 0 /\ mass <= self.mass),
              err |-> TRUE, self |-> self, out |-> Water_zero]
        ELSE [panic |-> ~(mass >= 0 /\ mass <= self.mass),
              err |-> FALSE,
              self |-> Water_sub_mass(cooled_self, mass).value,
              out |-> [mass |-> mass, temperature |-> cooled_self.temperature]]

\* Water::condensate removing the mass before the energy is deposited, so
\* that only the remaining steam is heated.
Water_condensate_RemovesFirst(self, mass) ==
    LET remaining == Water_sub_mass(self, mass).value
        heated == Water_add_energy(remaining, PhaseChangeEnergyOf(mass))
    IN  IF ~(mass >= 0 /\ mass <= self.mass)
        THEN [panic |-> TRUE, self |-> self, out |-> Water_zero]
        ELSE [panic |-> FALSE,
              self |-> heated,
              out |-> [mass |-> mass, temperature |-> heated.temperature]]

\* Water::condensate
Water_condensate(self, mass) ==
    LET heated_self == Water_add_energy(self, PhaseChangeEnergyOf(mass))
    IN  [panic |-> ~(mass >= 0 /\ mass <= self.mass),
         self |-> Water_sub_mass(heated_self, mass).value,
         out |-> [mass |-> mass, temperature |-> heated_self.temperature]]

\* Water::simultaneous_mass_exchange merging the outgoing water into the
\* other body before the incoming water is removed from it.
Water_simultaneous_mass_exchange_Sequential(self, other, outgoing_mass, incoming_mass) ==
    LET outgoing == Water_remove(self, outgoing_mass)
        merged   == Water_add(other, outgoing.out)
        incoming == Water_remove(merged, incoming_mass)
    IN  [panic |-> outgoing.panic \/ incoming.panic,
         self  |-> Water_add(outgoing.self, incoming.out),
         other |-> incoming.self]

\* Water::simultaneous_mass_exchange with the outgoing water copied rather
\* than removed from the receiver.
Water_simultaneous_mass_exchange_CopiesOutgoing(self, other, outgoing_mass, incoming_mass) ==
    LET outgoing == Water_remove(self, outgoing_mass)
        incoming == Water_remove(other, incoming_mass)
    IN  [panic |-> outgoing.panic \/ incoming.panic,
         self  |-> Water_add(self, incoming.out),
         other |-> Water_add(incoming.self, outgoing.out)]

\* Water::simultaneous_mass_exchange: <<self, other>> afterwards.
Water_simultaneous_mass_exchange(self, other, outgoing_mass, incoming_mass) ==
    LET outgoing == Water_remove(self, outgoing_mass)
        incoming == Water_remove(other, incoming_mass)
    IN  [panic |-> outgoing.panic \/ incoming.panic,
         self  |-> Water_add(outgoing.self, incoming.out),
         other |-> Water_add(incoming.self, outgoing.out)]

-----------------------------------------------------------------------------
(* container::WaterContainer                                               *)

WaterContainer_new(vol, w, s) == [volume |-> vol, water |-> w, steam |-> s]

water_volume(c) == Water_volume(c.water)

steam_volume(c) == c.volume - water_volume(c)

\* Only evaluated with a steam volume >= 0.
pressure(c) == Water_pressure(c.steam, steam_volume(c))

\* WaterContainer::evaporate on a container value.
WaterContainer_evaporate(c, mass) ==
    LET r == Water_evaporate(c.water, mass)
    IN  [panic |-> r.panic,
         err |-> r.err,
         container |-> IF r.err THEN [c EXCEPT !.water = r.self]
                       ELSE [c EXCEPT !.water = r.self,
                                      !.steam = Water_add(c.steam, r.out)]]

\* WaterContainer::condensate on a container value.
WaterContainer_condensate(c, mass) ==
    LET r == Water_condensate(c.steam, mass)
    IN  [panic |-> r.panic,
         container |-> [c EXCEPT !.steam = r.self,
                                 !.water = Water_add(c.water, r.out)]]

\* f64::is_sign_negative of a volume difference (never -0.0).
IsSignNegative(v) == v < 0

\* phase_equillibrium with the two comparisons made exclusive (else if).
phase_equillibrium_Exclusive(c) ==
    IF c.steam.mass = 0 /\ c.water.mass = 0
    THEN [should_condensate |-> FALSE, should_evaporate |-> FALSE]
    ELSE IF IsSignNegative(steam_volume(c))
    THEN [should_condensate |-> TRUE, should_evaporate |-> FALSE]
    ELSE LET condensate == PressureGt(pressure(c), Water_saturation_pressure(c.steam))
         IN  [should_condensate |-> condensate,
              should_evaporate |->
                  ~condensate /\ PressureLt(pressure(c), Water_saturation_pressure(c.water))]

phase_equillibrium(c) ==
    IF c.steam.mass = 0 /\ c.water.mass = 0
    THEN [should_condensate |-> FALSE, should_evaporate |-> FALSE]
    ELSE IF IsSignNegative(steam_volume(c))
    THEN [should_condensate |-> TRUE, should_evaporate |-> FALSE]
    ELSE [should_condensate |->
              PressureGt(pressure(c), Water_saturation_pressure(c.steam)),
          should_evaporate |->
              PressureLt(pressure(c), Water_saturation_pressure(c.water))]

-----------------------------------------------------------------------------
(* WaterContainer::evaporate_condensate, one action per step               *)

\* 1e-10 kg, the width at which the binary searches stop, in mass steps.
Tolerance == 1

\* Calls of evaporate_condensate per behaviour.
MaxCalls == 2

container == WaterContainer_new(volume, water, steam)

\* The mass from which two neighbouring f64 values are further apart than
\* the tolerance: 2^19 kg in the program (2^-33 kg = 1.16e-10 kg apart), 2^19
\* mass steps here.
CoarseMass == 524288

\* The distance between neighbouring f64 values at a mass, in mass steps; it
\* doubles with every power of two from CoarseMass on.
RECURSIVE Spacing(_)
Spacing(mass) ==
    IF mass < CoarseMass THEN 1 ELSE 2 * Spacing(mass \div 2)

\* A multiple x of half the spacing s, rounded to a multiple of s, a tie to
\* the even multiple (the f64 rounding mode).
RoundToEven(x, s) ==
    LET q == x \div s
        r == x % s
    IN  IF 2 * r < s THEN q * s
        ELSE IF 2 * r > s THEN (q + 1) * s
        ELSE IF q % 2 = 0 THEN q * s ELSE (q + 1) * s

\* potential / (R' * temperature), then .max(0).min(available): a zero
\* temperature divides by zero (+inf, -inf or NaN), and max(NaN, 0) is 0.
\* The quotient is an f64 value, so it is rounded to the spacing at its size.
MassBound(pressure_difference, vol, temperature, available) ==
    IF temperature = 0
    THEN IF pressure_difference > 0 THEN available ELSE 0
    ELSE IF pressure_difference <= 0 THEN 0
    ELSE LET s == MulDivQR(pressure_difference, vol, temperature)
             m == MulAddDiv(s[1], TempScale \div 1000,
                            MulDiv(s[2], TempScale \div 1000, temperature), 1,
                            SPECIAL_IDEAL_GAS_CONSTANT)
             f == RoundToEven(m, Spacing(m))
         IN  IF f < available THEN f ELSE available

\* The evaporation bound without .min(self.water.mass).
water_evaporation_bound_Unclamped(c) ==
    MassBound(Water_saturation_pressure(c.water) - pressure(c).value,
              steam_volume(c), c.water.temperature, Huge)

\* Only evaluated with a steam volume > 0.
water_evaporation_bound(c) ==
    MassBound(Water_saturation_pressure(c.water) - pressure(c).value,
              steam_volume(c), c.water.temperature, c.water.mass)

steam_condensation_bound(c) ==
    MassBound(pressure(c).value - Water_saturation_pressure(c.steam),
              steam_volume(c), c.steam.temperature, c.steam.mass)

\* Iterations of one binary search per behaviour.
MaxIterations == 40

\* (right + left) / 2.0: below CoarseMass the grid step (rounding down);
\* from CoarseMass on the sum is rounded to the f64 spacing and then halved.
Middle(l, r) ==
    LET s == Spacing((r + l) \div 2)
    IN  IF s = 1 THEN (r + l) \div 2
        ELSE RoundToEven(r + l, 2 * s) \div 2

\* container_sim in main.rs: 49.85 Mg at 360 C, 275 kg at 350 C, 100 m^3,
\* with a mass step of 1 g.
SimulationContainer ==
    WaterContainer_new(100000000, Water_new(49850000, 63315000),
                       Water_new(275000, 62315000))

Celsius(degrees) == CelsiusOffset + degrees * TempScale

InitialVolumes == {1918, 100000, 400000000}

InitialWaters ==
    { Water_zero,
      Water_new(4, Celsius(100)),
      Water_new(100, Celsius(-10)),
      Water_new(1000, Celsius(360)),
      Water_new(95835, Celsius(100)) }

InitialSteams ==
    { Water_zero,
      Water_new(1, Celsius(350)),
      Water_new(30, Celsius(350)),
      Water_new(100, Celsius(20)) }

\* Two containers whose searches close in on a mass above CoarseMass: hot
\* water under an empty steam space, and cold dense steam over no water.
LargeContainers ==
    { WaterContainer_new(25000000, Water_new(6250000, Celsius(370)), Water_zero),
      WaterContainer_new(15625000, Water_zero, Water_new(1562500, Celsius(100))) }

InitialContainers ==
    {SimulationContainer} \cup LargeContainers \cup
    { WaterContainer_new(v, w, s) :
        v \in InitialVolumes, w \in InitialWaters, s \in InitialSteams }

\* No operation is applied on its own while the container runs.
NoCall == [op |-> "none"]

Init ==
    /\ \E c \in InitialContainers :
          /\ volume = c.volume
          /\ water = c.water
          /\ steam = c.steam
          /\ initial = c
          /\ pre = c
          /\ test = c
    /\ pc = "idle"
    /\ left = 0
    /\ right = 0
    /\ middle = 0
    /\ iteration = 0
    /\ probe = "none"
    /\ evaporation_bound = 0
    /\ condensation_bound = 0
    /\ evaporation_mass = 0
    /\ panicked = FALSE
    /\ errors = 0
    /\ exchanges = 0
    /\ calls = 0
    /\ call = NoCall
    /\ ret = NoCall

\* The incompressible branch with its two statements in the other order.
Incompressible_ZeroFirst ==
    /\ pc = "idle"
    /\ ~panicked
    /\ UNCHANGED <<call, ret>>
    /\ calls < MaxCalls
    /\ steam_volume(container) <= 0
    /\ water' = Water_add(water, Water_zero)
    /\ steam' = Water_zero
    /\ pre' = container
    /\ calls' = calls + 1
    /\ errors' = 0
    /\ exchanges' = 0
    /\ probe' = "none"
    /\ UNCHANGED <<volume, pc, left, right, middle, iteration, test,
                   evaporation_bound, condensation_bound, evaporation_mass,
                   panicked, initial>>

\* steam_volume <= 0: self.water += self.steam; self.steam = Water::zero()
Incompressible ==
    /\ pc = "idle"
    /\ ~panicked
    /\ UNCHANGED <<call, ret>>
    /\ calls < MaxCalls
    /\ steam_volume(container) <= 0
    /\ water' = Water_add(water, steam)
    /\ steam' = Water_zero
    /\ pre' = container
    /\ calls' = calls + 1
    /\ errors' = 0
    /\ exchanges' = 0
    /\ probe' = "none"
    /\ UNCHANGED <<volume, pc, left, right, middle, iteration, test,
                   evaporation_bound, condensation_bound, evaporation_mass,
                   panicked, initial>>

\* steam_volume > 0: the two upper bounds; the evaporation search starts.
BeginSearch ==
    /\ pc = "idle"
    /\ ~panicked
    /\ UNCHANGED <<call, ret>>
    /\ calls < MaxCalls
    /\ steam_volume(container) > 0
    /\ evaporation_bound' = water_evaporation_bound(container)
    /\ condensation_bound' = steam_condensation_bound(container)
    /\ left' = 0
    /\ right' = water_evaporation_bound(container)
    /\ iteration' = 0
    /\ pc' = "evaporation"
    /\ pre' = container
    /\ test' = container
    /\ calls' = calls + 1
    /\ errors' = 0
    /\ exchanges' = 0
    /\ probe' = "none"
    /\ UNCHANGED <<volume, water, steam, middle, evaporation_mass, panicked, initial>>

\* The first loop returning the Err of test_container.evaporate(middle) to
\* the caller (the ? operator) instead of taking it as "too much".
EvaporationProbe_PropagatesError ==
    /\ pc = "evaporation"
    /\ ~panicked
    /\ UNCHANGED <<call, ret>>
    /\ right - left > Tolerance
    /\ iteration < MaxIterations
    /\ iteration' = iteration + 1
    /\ LET m == Middle(left, right)
           r == WaterContainer_evaporate(container, m)
       IN  /\ middle' = m
           /\ panicked' = (~(right > left) \/ r.panic)
           /\ test' = r.container
           /\ errors' = IF r.err THEN errors + 1 ELSE errors
           /\ IF r.err
              THEN probe' = "err" /\ right' = right /\ left' = left /\ pc' = "idle"
              ELSE IF phase_equillibrium(r.container).should_evaporate
              THEN probe' = "continue" /\ left' = m /\ right' = right /\ pc' = pc
              ELSE probe' = "stop" /\ right' = m /\ left' = left /\ pc' = pc
    /\ UNCHANGED <<volume, water, steam, evaporation_bound, condensation_bound,
                   evaporation_mass, initial, pre, exchanges, calls>>

\* The first loop moving left, not right, to a candidate after which the
\* clone no longer should evaporate.
EvaporationProbe_AcceptsStop ==
    /\ pc = "evaporation"
    /\ ~panicked
    /\ UNCHANGED <<call, ret>>
    /\ right - left > Tolerance
    /\ iteration < MaxIterations
    /\ iteration' = iteration + 1
    /\ LET m == Middle(left, right)
           r == WaterContainer_evaporate(container, m)
       IN  /\ middle' = m
           /\ panicked' = (~(right > left) \/ r.panic)
           /\ test' = r.container
           /\ errors' = IF r.err THEN errors + 1 ELSE errors
           /\ IF r.err
              THEN probe' = "err" /\ right' = m /\ left' = left
              ELSE IF phase_equillibrium(r.container).should_evaporate
              THEN probe' = "continue" /\ left' = m /\ right' = right
              ELSE probe' = "stop" /\ left' = m /\ right' = right
    /\ UNCHANGED <<volume, water, steam, pc, evaporation_bound, condensation_bound,
                   evaporation_mass, initial, pre, exchanges, calls>>

\* One iteration of the first while loop: test_container = self.clone(),
\* test_container.evaporate(middle), then the phase equilibrium of the clone.
EvaporationProbe ==
    /\ pc = "evaporation"
    /\ ~panicked
    /\ UNCHANGED <<call, ret>>
    /\ right - left > Tolerance
    /\ iteration < MaxIterations
    /\ iteration' = iteration + 1
    /\ LET m == Middle(left, right)
           r == WaterContainer_evaporate(container, m)
       IN  /\ middle' = m
           /\ panicked' = (~(right > left) \/ r.panic)
           /\ test' = r.container
           /\ errors' = IF r.err THEN errors + 1 ELSE errors
           /\ IF r.err
              THEN probe' = "err" /\ right' = m /\ left' = left
              ELSE IF phase_equillibrium(r.container).should_evaporate
              THEN probe' = "continue" /\ left' = m /\ right' = right
              ELSE probe' = "stop" /\ right' = m /\ left' = left
    /\ UNCHANGED <<volume, water, steam, pc, evaporation_bound, condensation_bound,
                   evaporation_mass, initial, pre, exchanges, calls>>

\* The first loop ends; the condensation search starts.
EvaporationDone ==
    /\ pc = "evaporation"
    /\ ~panicked
    /\ UNCHANGED <<call, ret>>
    /\ ~(right - left > Tolerance)
    /\ evaporation_mass' = Middle(left, right)
    /\ left' = 0
    /\ right' = condensation_bound
    /\ iteration' = 0
    /\ pc' = "condensation"
    /\ probe' = "none"
    /\ test' = container
    /\ UNCHANGED <<volume, water, steam, middle, evaporation_bound, condensation_bound,
                   panicked, initial, pre, errors, exchanges, calls>>

\* The second loop probing on a clone to which the evaporation found by the
\* first loop has been applied.
CondensationProbe_AfterEvaporation ==
    /\ pc = "condensation"
    /\ ~panicked
    /\ UNCHANGED <<call, ret>>
    /\ right - left > Tolerance
    /\ iteration < MaxIterations
    /\ iteration' = iteration + 1
    /\ LET m == Middle(left, right)
           r == WaterContainer_condensate(
                    WaterContainer_evaporate(container, evaporation_mass).container, m)
       IN  /\ middle' = m
           /\ panicked' = (~(right > left) \/ r.panic)
           /\ test' = r.container
           /\ IF phase_equillibrium(r.container).should_condensate
              THEN probe' = "continue" /\ left' = m /\ right' = right
              ELSE probe' = "stop" /\ right' = m /\ left' = left
    /\ UNCHANGED <<volume, water, steam, pc, evaporation_bound, condensation_bound,
                   evaporation_mass, initial, pre, errors, exchanges, calls>>

\* The second loop condensing in the container itself instead of a clone.
CondensationProbe_OnSelf ==
    /\ pc = "condensation"
    /\ ~panicked
    /\ UNCHANGED <<call, ret>>
    /\ right - left > Tolerance
    /\ iteration < MaxIterations
    /\ iteration' = iteration + 1
    /\ LET m == Middle(left, right)
           r == WaterContainer_condensate(container, m)
       IN  /\ middle' = m
           /\ panicked' = (~(right > left) \/ r.panic)
           /\ test' = r.container
           /\ IF phase_equillibrium(r.container).should_condensate
              THEN probe' = "continue" /\ left' = m /\ right' = right
              ELSE probe' = "stop" /\ right' = m /\ left' = left
    /\ water' = test'.water
    /\ steam' = test'.steam
    /\ UNCHANGED <<volume, pc, evaporation_bound, condensation_bound,
                   evaporation_mass, initial, pre, errors, exchanges, calls>>

\* One iteration of the second while loop.
CondensationProbe ==
    /\ pc = "condensation"
    /\ ~panicked
    /\ UNCHANGED <<call, ret>>
    /\ right - left > Tolerance
    /\ iteration < MaxIterations
    /\ iteration' = iteration + 1
    /\ LET m == Middle(left, right)
           r == WaterContainer_condensate(container, m)
       IN  /\ middle' = m
           /\ panicked' = (~(right > left) \/ r.panic)
           /\ test' = r.container
           /\ IF phase_equillibrium(r.container).should_condensate
              THEN probe' = "continue" /\ left' = m /\ right' = right
              ELSE probe' = "stop" /\ right' = m /\ left' = left
    /\ UNCHANGED <<volume, water, steam, pc, evaporation_bound, condensation_bound,
                   evaporation_mass, initial, pre, errors, exchanges, calls>>

\* The second loop ends; simultaneous_mass_exchange commits both masses.
Exchange ==
    /\ pc = "condensation"
    /\ ~panicked
    /\ UNCHANGED <<call, ret>>
    /\ ~(right - left > Tolerance)
    /\ LET x == Water_simultaneous_mass_exchange(water, steam, evaporation_mass,
                                                 Middle(left, right))
       IN  /\ panicked' = x.panic
           /\ water' = IF x.panic THEN water ELSE x.self
           /\ steam' = IF x.panic THEN steam ELSE x.other
    /\ pc' = "idle"
    /\ exchanges' = exchanges + 1
    /\ probe' = "none"
    /\ UNCHANGED <<volume, left, right, middle, iteration, test, evaporation_bound,
                   condensation_bound, evaporation_mass, initial, pre, errors, calls>>

Next ==
    \/ Incompressible
    \/ BeginSearch
    \/ EvaporationProbe
    \/ EvaporationDone
    \/ CondensationProbe
    \/ Exchange

Spec == Init /\ [][Next]_vars

-----------------------------------------------------------------------------
(* The operations of Water and of LinearInterpolationTable applied on      *)
(* their own: the inputs are drawn in the initial state, one action per    *)
(* operation applies it once.                                               *)

\* Largest operand mass, in mass steps.
MaxMass == 3

Masses == 0..MaxMass

\* Masses handed to the operations that assert a range: one below 0 and one
\* above every operand mass as well.
ArgumentMasses == (0 - 1)..(MaxMass + 1)

\* 0 K, 100 K, 333.33333 K, 400 K
Temperatures == {0, 100 * TempScale, 33333333, 400 * TempScale}

Waters == {Water_new(m, t) : m \in Masses, t \in Temperatures}

\* The table of the unit test, [(0,1),(2,2),(3,0)], keys and values in 1/100.
TestTable == << <<0, 100>>, <<200, 200>>, <<300, 0>> >>

\* Queries of the unit test table, in 1/100: below, on and between the keys,
\* and above.
TestQueries == {0 - 100, 0, 50, 100, 125, 200, 250, 275, 300, 500}

\* A table of a single pair.
SingleTable == << <<200, 700>> >>

Tables == {TestTable, SingleTable}

\* Pair lists handed to LinearInterpolationTable::new.
PairLists ==
    { << >>,
      SingleTable,
      TestTable,
      << <<0, 100>>, <<0, 200>> >>,
      << <<0, 100>>, <<200, 200>>, <<200, 0>> >>,
      << <<0, 100>>, <<300, 200>>, <<200, 0>> >>,
      << <<300, 0>>, <<200, 200>>, <<0, 100>> >>,
      DENSITY_BY_TEMPERATURE_RAW,
      BOILING_POINT_BY_PRESSURE_RAW,
      SATURATION_PRESSURE_BY_TEMPERATURE }

\* Pressures on the boiling curve, in microbar: every key, and two points
\* inside every segment between finite temperatures.
CurvePressures ==
    LET t == BOILING_POINT_BY_PRESSURE_RAW
    IN  {t[Len(t) - 1][1], t[Len(t)][1]} \cup
        UNION { {t[i][1], t[i][1] + 1, t[i][1] + (t[i + 1][1] - t[i][1]) \div 2} :
                  i \in 1..(Len(t) - 2) }

\* Temperatures on the boiling curve: every key, two points inside every
\* segment below 370 degree Celsius, and 400 and 1000 degree Celsius on the
\* segment that ends at 1e50.
CurveTemperatures ==
    LET t == SATURATION_PRESSURE_BY_TEMPERATURE
    IN  {CelsiusOffset + t[Len(t) - 1][1], CelsiusOffset + t[Len(t)][1],
         Celsius(400), Celsius(1000)} \cup
        UNION { {CelsiusOffset + t[i][1], CelsiusOffset + t[i][1] + 1,
                 CelsiusOffset + t[i][1] + (t[i + 1][1] - t[i][1]) \div 2} :
                  i \in 1..(Len(t) - 2) }

OpInit ==
    /\ volume = SimulationContainer.volume
    /\ water = SimulationContainer.water
    /\ steam = SimulationContainer.steam
    /\ initial = SimulationContainer
    /\ pre = SimulationContainer
    /\ test = SimulationContainer
    /\ pc = "idle"
    /\ left = 0
    /\ right = 0
    /\ middle = 0
    /\ iteration = 0
    /\ probe = "none"
    /\ evaporation_bound = 0
    /\ condensation_bound = 0
    /\ evaporation_mass = 0
    /\ panicked = FALSE
    /\ errors = 0
    /\ exchanges = 0
    /\ calls = 0
    /\ ret = NoCall
    /\ \/ \E self \in Waters, rhs \in Waters :
             call = [op |-> "add", self |-> self, rhs |-> rhs]
       \/ \E a \in Waters, b \in Waters, c \in Waters :
             call = [op |-> "add3", a |-> a, b |-> b, c |-> c]
       \/ \E self \in Waters, mass \in ArgumentMasses :
             call = [op |-> "remove", self |-> self, mass |-> mass]
       \/ \E self \in Waters, mass \in ArgumentMasses :
             call = [op |-> "evaporate", self |-> self, mass |-> mass]
       \/ \E self \in Waters, mass \in ArgumentMasses :
             call = [op |-> "condensate", self |-> self, mass |-> mass]
       \/ \E self \in Waters, other \in Waters, o \in Masses, i \in Masses :
             call = [op |-> "simultaneous_mass_exchange", self |-> self,
                     other |-> other, outgoing_mass |-> o, incoming_mass |-> i]
       \/ \E l \in {Clamp, Panic}, t \in Tables, x \in TestQueries :
             call = [op |-> "get", limit_behaviour |-> l, table |-> t, x |-> x]
       \/ \E t \in PairLists :
             call = [op |-> "new", table |-> t]
       \/ \E p \in CurvePressures :
             call = [op |-> "boiling_point_by_pressure", pressure |-> p]
       \/ \E t \in CurveTemperatures :
             call = [op |-> "saturation_pressure_by_temperature", temperature |-> t]

solver == <<volume, water, steam, pc, left, right, middle, iteration, test, probe,
            evaporation_bound, condensation_bound, evaporation_mass, panicked,
            initial, pre, errors, exchanges, calls>>

\* self + rhs
ApplyAdd ==
    /\ call.op = "add"
    /\ ret.op = "none"
    /\ ret' = [op |-> "add", value |-> Water_add(call.self, call.rhs)]
    /\ UNCHANGED <<solver, call>>

\* a + b and b + a; (a + b) + c and a + (b + c)
ApplyAddThree ==
    /\ call.op = "add3"
    /\ ret.op = "none"
    /\ ret' = [op |-> "add3",
               ab |-> Water_add(call.a, call.b),
               ba |-> Water_add(call.b, call.a),
               ab_c |-> Water_add(Water_add(call.a, call.b), call.c),
               a_bc |-> Water_add(call.a, Water_add(call.b, call.c))]
    /\ UNCHANGED <<solver, call>>

\* self.remove(mass)
ApplyRemove ==
    /\ call.op = "remove"
    /\ ret.op = "none"
    /\ LET r == Water_remove(call.self, call.mass)
       IN  ret' = [op |-> "remove", panic |-> r.panic, self |-> r.self, out |-> r.out]
    /\ UNCHANGED <<solver, call>>

\* self.evaporate(mass)
ApplyEvaporate ==
    /\ call.op = "evaporate"
    /\ ret.op = "none"
    /\ LET r == Water_evaporate(call.self, call.mass)
       IN  ret' = [op |-> "evaporate", panic |-> r.panic, err |-> r.err,
                   self |-> r.self, out |-> r.out]
    /\ UNCHANGED <<solver, call>>

\* self.condensate(mass)
ApplyCondensate ==
    /\ call.op = "condensate"
    /\ ret.op = "none"
    /\ LET r == Water_condensate(call.self, call.mass)
       IN  ret' = [op |-> "condensate", panic |-> r.panic,
                   self |-> r.self, out |-> r.out]
    /\ UNCHANGED <<solver, call>>

\* self.simultaneous_mass_exchange(&mut other, outgoing_mass, incoming_mass)
ApplyExchange ==
    /\ call.op = "simultaneous_mass_exchange"
    /\ ret.op = "none"
    /\ LET r == Water_simultaneous_mass_exchange(call.self, call.other,
                                                 call.outgoing_mass, call.incoming_mass)
       IN  ret' = [op |-> "simultaneous_mass_exchange", panic |-> r.panic,
                   self |-> r.self, other |-> r.other]
    /\ UNCHANGED <<solver, call>>

\* LinearInterpolationTable { table, limit_behaviour }.get(x)
ApplyGet ==
    /\ call.op = "get"
    /\ ret.op = "none"
    /\ LET r == TableGet(call.limit_behaviour, call.table, call.x)
       IN  ret' = [op |-> "get", panic |-> r.panic, value |-> r.value]
    /\ UNCHANGED <<solver, call>>

\* LinearInterpolationTable::new(limit_behaviour, table)
ApplyNew ==
    /\ call.op = "new"
    /\ ret.op = "none"
    /\ ret' = [op |-> "new", panic |-> ~TableNewAccepts(call.table)]
    /\ UNCHANGED <<solver, call>>

\* boiling_point_by_pressure(pressure), and the saturation pressure at the
\* temperature it returns.
ApplyBoilingPoint ==
    /\ call.op = "boiling_point_by_pressure"
    /\ ret.op = "none"
    /\ LET t == boiling_point_by_pressure(call.pressure)
       IN  ret' = [op |-> "boiling_point_by_pressure",
                   temperature |-> t,
                   pressure |-> saturation_pressure_by_temperature(t)]
    /\ UNCHANGED <<solver, call>>

\* saturation_pressure_by_temperature(temperature), and the boiling point at
\* the pressure it returns.
ApplySaturationPressure ==
    /\ call.op = "saturation_pressure_by_temperature"
    /\ ret.op = "none"
    /\ LET p == saturation_pressure_by_temperature(call.temperature)
       IN  ret' = [op |-> "saturation_pressure_by_temperature",
                   pressure |-> p,
                   temperature |-> boiling_point_by_pressure(p)]
    /\ UNCHANGED <<solver, call>>

OpNext ==
    \/ ApplyAdd
    \/ ApplyAddThree
    \/ ApplyRemove
    \/ ApplyEvaporate
    \/ ApplyCondensate
    \/ ApplyExchange
    \/ ApplyGet
    \/ ApplyNew
    \/ ApplyBoilingPoint
    \/ ApplySaturationPressure

OpSpec == OpInit /\ [][OpNext]_vars

-----------------------------------------------------------------------------
(* Properties                                                              *)

\* C1: from a valid initial container, after any number of
\* evaporate_condensate() calls (incompressible branch or binary search),
\* water.mass + steam.mass equals its initial value.
C1_MassConserved ==
    water.mass + steam.mass = initial.water.mass + initial.steam.mass

\* A container that first took the incompressible branch and then a binary
\* search whose exchange moved mass into the steam.
C1_Witness ==
    /\ pc = "idle"
    /\ steam_volume(initial) <= 0
    /\ exchanges = 1
    /\ steam.mass > 0
    /\ water.mass < initial.water.mass + initial.steam.mass

\* C2: evaporate_condensate() never surfaces NonPositiveTemperature: a probe
\* of the evaporation search that returns it only lowers the upper end of the
\* search interval to the candidate (lower end, container and loop unchanged,
\* no panic), and the call that met it still ends with exactly one exchange.
C2_ErrorAbsorbed ==
    /\ [][ errors' > errors =>
             /\ pc = "evaporation" /\ pc' = "evaporation"
             /\ probe' = "err"
             /\ right' = middle' /\ right' < right
             /\ left' = left
             /\ water' = water /\ steam' = steam
             /\ ~panicked' ]_vars
    /\ [](pc = "idle" /\ errors > 0 => exchanges = 1 /\ ~panicked)
    /\ [](pc # "idle" => exchanges = 0)

\* A finished call one of whose probes returned the error.
C2_Witness ==
    /\ pc = "idle"
    /\ errors > 0
    /\ exchanges = 1
    /\ calls > 0

\* C3 as stated: every candidate mass the evaporation search hands to the
\* probe can be evaporated without NonPositiveTemperature.
C3_EveryCandidateFeasible ==
    (pc = "evaporation" /\ probe # "none") => probe # "err"

\* C3, amended: every candidate of the evaporation search lies strictly
\* between 0 and the clamped linearized bound, which is at most water.mass,
\* so the probe's mass assertions hold; a candidate that is not feasible
\* makes the probe fail and becomes the upper end of the search.
C3_CandidateWithinBound ==
    /\ evaporation_bound >= 0
    /\ pc # "idle" => evaporation_bound <= water.mass
    /\ ~panicked
    /\ (pc = "evaporation" /\ probe # "none") =>
          /\ 0 < middle /\ middle < evaporation_bound
          /\ left < right /\ right <= evaporation_bound
          /\ probe = "err" => right = middle

\* A candidate inside the bound whose probe returned the error.
C3_Witness ==
    /\ pc = "evaporation"
    /\ probe = "err"
    /\ 0 < middle /\ middle < evaporation_bound
    /\ evaporation_bound <= water.mass

\* C4: a call made with steam_volume() <= 0 ends with steam = Water::zero()
\* and with water holding the whole mass at the mass-weighted mean of the two
\* former temperatures; no search runs (no probe, no exchange).
C4_IncompressibleMerge ==
    /\ (pc = "idle" /\ calls > 0 /\ steam_volume(pre) <= 0) =>
          /\ steam = Water_zero
          /\ water.mass = pre.water.mass + pre.steam.mass
          /\ water.temperature =
                MulAddDiv(pre.water.mass, pre.water.temperature,
                          pre.steam.mass, pre.steam.temperature,
                          pre.water.mass + pre.steam.mass)
          /\ exchanges = 0 /\ errors = 0 /\ probe = "none"
    /\ pc # "idle" => steam_volume(pre) > 0

\* An incompressible call that merged steam of another temperature.
C4_Witness ==
    /\ pc = "idle"
    /\ calls > 0
    /\ steam_volume(pre) <= 0
    /\ pre.steam.mass > 0
    /\ pre.steam.temperature # pre.water.temperature
    /\ steam = Water_zero

\* C5 as stated, its monotonicity part on the first two calls: with the
\* container of container_sim the pressure before the first call, between the
\* calls and after the second call is a monotone sequence.
C5_PressureMonotone ==
    (initial = SimulationContainer /\ pc = "idle" /\ calls = 2) =>
        LET p0 == pressure(initial).value
            p1 == pressure(pre).value
            p2 == pressure(container).value
        IN  (p0 <= p1 /\ p1 <= p2) \/ (p0 >= p1 /\ p1 >= p2)

\* C6: from phases that start with temperature > 0, every phase of positive
\* mass keeps a temperature > 0 K; temperature 0 K appears only on a phase of
\* mass zero (Water::zero()).
C6_PositiveTemperature ==
    (initial.water.temperature > 0 /\ initial.steam.temperature > 0) =>
        /\ water.temperature >= 0 /\ steam.temperature >= 0
        /\ water.mass > 0 => water.temperature > 0
        /\ steam.mass > 0 => steam.temperature > 0
        /\ water.temperature = 0 => water = Water_zero
        /\ steam.temperature = 0 => steam = Water_zero

\* A container that started with two positive temperatures, after a search
\* call that moved mass between the phases.
C6_Witness ==
    /\ initial.water.temperature > 0 /\ initial.steam.temperature > 0
    /\ pc = "idle"
    /\ exchanges = 1
    /\ water.mass # initial.water.mass
    /\ water.mass > 0 /\ steam.mass > 0

\* C7 as stated: with a nonzero mass and steam_volume() <= 0, exactly zero
\* included, phase_equillibrium() gives should_condensate = true and
\* should_evaporate = false.
C7_NoSteamVolumeCondensates ==
    ((water.mass # 0 \/ steam.mass # 0) /\ steam_volume(container) <= 0) =>
        /\ phase_equillibrium(container).should_condensate
        /\ ~phase_equillibrium(container).should_evaporate

\* C8: with both masses zero phase_equillibrium() gives (false, false); with
\* a steam volume > 0 should_condensate is pressure() > the saturation
\* pressure of the steam and should_evaporate is pressure() < the saturation
\* pressure of the water, each decided on its own. Stated for the container
\* and for the clone the last probe worked on.
C8_FlagsFollowPressure ==
    \A c \in {container, test} :
        LET e == phase_equillibrium(c)
        IN  /\ (c.water.mass = 0 /\ c.steam.mass = 0) =>
                  (~e.should_condensate /\ ~e.should_evaporate)
            /\ (~(c.water.mass = 0 /\ c.steam.mass = 0) /\ steam_volume(c) > 0) =>
                  /\ e.should_condensate <=>
                        pressure(c).value > Water_saturation_pressure(c.steam)
                  /\ e.should_evaporate <=>
                        pressure(c).value < Water_saturation_pressure(c.water)

\* A probe of the evaporation search on a clone whose water is hotter than
\* its steam and whose pressure lies between the two saturation pressures:
\* both flags are true.
C8_Witness ==
    /\ pc = "evaporation"
    /\ probe = "continue"
    /\ steam_volume(test) > 0
    /\ test.water.temperature > test.steam.temperature
    /\ pressure(test).value > Water_saturation_pressure(test.steam)
    /\ pressure(test).value < Water_saturation_pressure(test.water)
    /\ phase_equillibrium(test).should_condensate
    /\ phase_equillibrium(test).should_evaporate

\* C9: Water::evaporate(mass) on a body of mass M > 0 returns
\* NonPositiveTemperature exactly when T - mass * L / (M * c) <= 0 and
\* succeeds otherwise; only the evaporation probe ever reports the error.
C9_ErrorExactlyWhenTooCold ==
    /\ probe = "err" => pc = "evaporation"
    /\ pc # "evaporation" => probe # "err"
    /\ (pc = "evaporation" /\ probe # "none" /\ water.mass > 0) =>
          (probe = "err" <=>
              water.temperature
                  - TemperatureDifference(PhaseChangeEnergyOf(middle), water.mass) <= 0)

\* An evaporation probe that failed on water of positive temperature.
C9_Witness ==
    /\ pc = "evaporation"
    /\ probe = "err"
    /\ water.mass > 0 /\ water.temperature > 0
    /\ middle <= water.mass

\* C10: when the evaporation fails, the receiver keeps its mass and
\* temperature and the container it was called on keeps both phases; when it
\* succeeds, the mass has moved from the water to the steam.
C10_ErrorLeavesStateUnchanged ==
    /\ probe = "err" => (test.water = water /\ test.steam = steam /\ test = container)
    /\ (pc = "evaporation" /\ probe \in {"continue", "stop"}) =>
          /\ test.water.mass = water.mass - middle
          /\ test.steam.mass = steam.mass + middle
          /\ test.volume = volume

\* A failed evaporation of a positive candidate mass on the clone.
C10_Witness ==
    /\ probe = "err"
    /\ middle > 0
    /\ test.water = water
    /\ errors > 0

\* mass * latent heat / (M * specific heat) on the temperature grid, rounded
\* down: 2230000 / 4180 = 111500 / 209 kelvin per unit of mass / M.
C_LatentTemperature(mass, M) == MulDiv(mass * 111500, TempScale, 209 * M)

\* C11: when Water::evaporate(mass) succeeds on a body of mass M > 0 and
\* temperature T, the receiver ends with mass M - mass and temperature
\* T' = T - mass * L / (M * c), and the returned water has mass `mass` and the
\* same temperature T'.
C11_EvaporateCoolsWholeBody ==
    (ret.op = "evaporate" /\ ~ret.panic /\ ~ret.err /\ call.self.mass > 0) =>
        LET cooled == call.self.temperature
                         - C_LatentTemperature(call.mass, call.self.mass)
        IN  /\ ret.self = Water_new(call.self.mass - call.mass, cooled)
            /\ ret.out = Water_new(call.mass, cooled)
            /\ cooled > 0
            /\ (call.self = Water_new(3, 400 * TempScale) /\ call.mass = 1) =>
                  cooled = 22216906

\* A successful evaporation of part of a body: both parts are colder than
\* the body was.
C11_Witness ==
    /\ ret.op = "evaporate"
    /\ ~ret.panic /\ ~ret.err
    /\ 0 < call.mass /\ call.mass < call.self.mass
    /\ ret.out.mass = call.mass
    /\ ret.out.temperature < call.self.temperature
    /\ ret.self.temperature = ret.out.temperature

\* C12: Water::condensate(mass) has no error outcome: it returns for every
\* mass with 0 <= mass <= self.mass (and aborts outside that range); on a body
\* of mass M > 0 and temperature T it leaves the receiver with mass M - mass
\* and temperature T + mass * L / (M * c) and returns the mass at that same
\* temperature.
C12_CondensateHeatsWholeBody ==
    ret.op = "condensate" =>
        /\ ret.panic <=> ~(0 <= call.mass /\ call.mass <= call.self.mass)
        /\ (~ret.panic /\ call.self.mass > 0) =>
              LET heated == call.self.temperature
                               + C_LatentTemperature(call.mass, call.self.mass)
              IN  /\ ret.self = Water_new(call.self.mass - call.mass, heated)
                  /\ ret.out = Water_new(call.mass, heated)
                  /\ (call.self = Water_new(3, 400 * TempScale) /\ call.mass = 1) =>
                        heated = 57783094

\* The whole of a body at 0 K condensates: evaporate would fail here,
\* condensate returns.
C12_Witness ==
    /\ ret.op = "condensate"
    /\ ~ret.panic
    /\ call.self.temperature = 0
    /\ call.mass = call.self.mass
    /\ call.mass > 0
    /\ ret.self.mass = 0
    /\ ret.out.temperature > 0

\* The mix of mass m1 at temperature t1 with mass m2 at temperature t2,
\* rounded down on the grid; 0 K for no mass.
C_Mix(m1, t1, m2, t2) ==
    Water_new(m1 + m2, IF m1 + m2 > 0 THEN (m1 * t1 + m2 * t2) \div (m1 + m2) ELSE 0)

\* C13: simultaneous_mass_exchange(other, out, in) removes both masses at the
\* bodies' original temperatures before either merge: afterwards self is the
\* mix of (self.mass - out at self's old temperature) with (in at other's old
\* temperature), and other is the mix of (other.mass - in at other's old
\* temperature) with (out at self's old temperature).
C13_ExchangeUsesOriginalTemperatures ==
    ret.op = "simultaneous_mass_exchange" =>
        /\ ret.panic <=> (call.outgoing_mass > call.self.mass
                            \/ call.incoming_mass > call.other.mass)
        /\ ~ret.panic =>
              /\ ret.self = C_Mix(call.self.mass - call.outgoing_mass,
                                  call.self.temperature,
                                  call.incoming_mass, call.other.temperature)
              /\ ret.other = C_Mix(call.other.mass - call.incoming_mass,
                                   call.other.temperature,
                                   call.outgoing_mass, call.self.temperature)

\* An exchange in both directions between bodies of different temperatures
\* that leaves mass of either origin on both sides.
C13_Witness ==
    /\ ret.op = "simultaneous_mass_exchange"
    /\ ~ret.panic
    /\ 0 < call.outgoing_mass /\ call.outgoing_mass < call.self.mass
    /\ 0 < call.incoming_mass /\ call.incoming_mass < call.other.mass
    /\ call.self.temperature > call.other.temperature
    /\ ret.self.temperature < call.self.temperature
    /\ ret.other.temperature > call.other.temperature

\* C14: Water + Water has mass m1 + m2 and, for m1 + m2 > 0, temperature
\* (m1 * T1 + m2 * T2) / (m1 + m2); for a combined mass of zero the
\* temperature is 0 K whatever the operands' temperatures.
C14_AddIsWeightedMean ==
    ret.op = "add" =>
        /\ ret.value = C_Mix(call.self.mass, call.self.temperature,
                             call.rhs.mass, call.rhs.temperature)
        /\ ret.value.mass = call.self.mass + call.rhs.mass
        /\ ret.value.mass = 0 => ret.value.temperature = 0
        /\ (call.self = Water_new(1, 400 * TempScale)
              /\ call.rhs = Water_new(2, 100 * TempScale)) =>
                 ret.value = Water_new(3, 200 * TempScale)

\* The sum of the unit test: 1 kg at 400 K plus 2 kg at 100 K.
C14_Witness ==
    /\ ret.op = "add"
    /\ call.self = Water_new(1, 400 * TempScale)
    /\ call.rhs = Water_new(2, 100 * TempScale)
    /\ ret.value.mass = 3
    /\ ret.value.temperature = 200 * TempScale

C16_ZeroMassIsIdentity ==
    (ret.op = "add" /\ call.rhs.mass = 0) => ret.value = call.self

\* C16, amended: for z of mass zero, w + z and z + w have the mass of w; the
\* temperature is that of w when w.mass > 0, and 0 K when w.mass = 0,
\* whatever temperature w had.
C16_ZeroMassIsIdentityOnMass ==
    /\ (ret.op = "add" /\ call.rhs.mass = 0) =>
          /\ ret.value.mass = call.self.mass
          /\ call.self.mass > 0 => ret.value.temperature = call.self.temperature
          /\ call.self.mass = 0 => ret.value.temperature = 0
    /\ (ret.op = "add" /\ call.self.mass = 0) =>
          /\ ret.value.mass = call.rhs.mass
          /\ call.rhs.mass > 0 => ret.value.temperature = call.rhs.temperature
          /\ call.rhs.mass = 0 => ret.value.temperature = 0

\* An empty body at a nonzero temperature plus Water::zero(): the sum is at
\* 0 K.
C16_Witness ==
    /\ ret.op = "add"
    /\ call.rhs = Water_zero
    /\ call.self.mass = 0
    /\ call.self.temperature > 0
    /\ ret.value = Water_zero

\* C17 as stated: Water::remove(mass) aborts for mass < 0 and for
\* mass > self.mass; for a mass inside the range it returns
\* Water(mass, self.temperature), lowers self.mass by mass and leaves
\* self.temperature unchanged.
C17_RemoveEnforcesRange ==
    ret.op = "remove" =>
        /\ (call.mass < 0 \/ call.mass > call.self.mass) => ret.panic
        /\ (0 <= call.mass /\ call.mass <= call.self.mass) =>
              /\ ~ret.panic
              /\ ret.out = Water_new(call.mass, call.self.temperature)
              /\ ret.self = Water_new(call.self.mass - call.mass, call.self.temperature)

C20_NewEnforcesIncreasingKeys ==
    ret.op = "new" =>
        LET t == call.table
        IN  /\ Len(t) = 0 => ret.panic
            /\ (\E i \in 1..(Len(t) - 1) : t[i][1] >= t[i + 1][1]) => ret.panic
            /\ ~ret.panic =>
                  /\ Len(t) > 0
                  /\ \A i, j \in 1..Len(t) : i < j => t[i][1] < t[j][1]
            /\ t \in {DENSITY_BY_TEMPERATURE_RAW, BOILING_POINT_BY_PRESSURE_RAW,
                      SATURATION_PRESSURE_BY_TEMPERATURE} => ~ret.panic
            /\ t = SATURATION_PRESSURE_BY_TEMPERATURE =>
                  \A i \in 1..Len(t) :
                      t[i] = <<BOILING_POINT_BY_PRESSURE_RAW[i][2],
                               BOILING_POINT_BY_PRESSURE_RAW[i][1]>>

\* new aborts on [(0,1),(2,2),(2,0)], whose last two keys are equal.
C20_Witness ==
    /\ ret.op = "new"
    /\ call.table = << <<0, 100>>, <<200, 200>>, <<200, 0>> >>
    /\ ret.panic

\* C21: boiling_point_by_pressure and saturation_pressure_by_temperature are
\* mutually inverse on the domain of the curve: for every pressure P between
\* the first and the last pressure key the saturation pressure at the boiling
\* point of P is P, and for every temperature T between the first and the last
\* temperature key the boiling point at the saturation pressure of T is T.
C21_MutuallyInverse ==
    /\ ret.op = "boiling_point_by_pressure" => ret.pressure = call.pressure
    /\ ret.op = "saturation_pressure_by_temperature" =>
           ret.temperature = call.temperature

\* C21, as the code has it: a round trip returns to the argument up to the
\* rounding of the intermediate value (the argument lies between the images of
\* the intermediate value and of its successor on the grid), for every
\* pressure on the curve and for every temperature up to the last finite key,
\* 370 degree Celsius; between 370 degree Celsius and 1e50 the saturation
\* pressure is 210.44 bar, whose boiling point is 370 degree Celsius.
C21_InverseUpToRounding ==
    /\ ret.op = "boiling_point_by_pressure" =>
          /\ ret.pressure <= call.pressure
          /\ call.pressure <= saturation_pressure_by_temperature(ret.temperature + 1)
    /\ (ret.op = "saturation_pressure_by_temperature"
            /\ call.temperature <= Celsius(370)) =>
          /\ ret.temperature <= call.temperature
          /\ call.temperature <= boiling_point_by_pressure(ret.pressure + 1)
    /\ (ret.op = "saturation_pressure_by_temperature"
            /\ call.temperature > Celsius(370)
            /\ call.temperature < CelsiusOffset + Huge) =>
          /\ ret.pressure = 210440000
          /\ ret.temperature = Celsius(370)
    /\ (ret.op = "saturation_pressure_by_temperature"
            /\ call.temperature = CelsiusOffset + Huge) =>
          /\ ret.pressure = 210441000
          /\ ret.temperature = call.temperature

\* A round trip that comes back one grid step below the pressure it started
\* from.
C21_Witness ==
    /\ ret.op = "boiling_point_by_pressure"
    /\ ret.pressure < call.pressure
    /\ call.pressure <= saturation_pressure_by_temperature(ret.temperature + 1)

\* C22: each of the two binary searches of evaporate_condensate() ends:
\* every iteration replaces the interval [left, right] by one of its halves,
\* so that its width falls with every iteration until it is at most 1e-10 kg.
C22_EveryIterationHalves ==
    [][(pc \in {"evaporation", "condensation"} /\ iteration' = iteration + 1) =>
           /\ \/ left' = left /\ right' = middle'
              \/ left' = middle' /\ right' = right
           /\ right' - left' < right - left]_vars

\* C23: during both binary searches the water and the steam of the container
\* itself stay what they were when the call began, whatever the probes do to
\* the clones; the state changes once, in the final
\* simultaneous_mass_exchange, in which the water loses the evaporation mass
\* and gains the condensation mass and the steam the other way round.
C23_SearchLeavesContainer ==
    /\ pc \in {"evaporation", "condensation"} =>
          /\ water = pre.water
          /\ steam = pre.steam
          /\ exchanges = 0
    /\ (pc = "idle" /\ calls > 0 /\ steam_volume(pre) > 0) =>
          /\ exchanges = 1
          /\ ~panicked =>
                LET condensation_mass == Middle(left, right)
                IN  /\ water.mass =
                           pre.water.mass - evaporation_mass + condensation_mass
                    /\ steam.mass =
                           pre.steam.mass - condensation_mass + evaporation_mass
                    /\ water = Water_add(Water_new(pre.water.mass - evaporation_mass,
                                                   pre.water.temperature),
                                         Water_new(condensation_mass,
                                                   pre.steam.temperature))
                    /\ steam = Water_add(Water_new(pre.steam.mass - condensation_mass,
                                                   pre.steam.temperature),
                                         Water_new(evaporation_mass,
                                                   pre.water.temperature))

\* An accepted condensation probe has changed the clone and left the
\* container as it was.
C23_Witness ==
    /\ pc = "condensation"
    /\ probe = "continue"
    /\ test # pre
    /\ test.water.mass = pre.water.mass + middle
    /\ water = pre.water
    /\ steam = pre.steam

\* The ends of the bracket of the running search: left is 0 or a candidate
\* after whose transfer the clone still demands it; right is the starting
\* bound or a candidate that failed or after which the clone no longer
\* demands the transfer.
C24_Bracket ==
    /\ pc = "evaporation" =>
          /\ \/ left = 0
             \/ LET r == WaterContainer_evaporate(pre, left)
                IN  ~r.err /\ phase_equillibrium(r.container).should_evaporate
          /\ \/ right = evaporation_bound
             \/ LET r == WaterContainer_evaporate(pre, right)
                IN  r.err \/ ~phase_equillibrium(r.container).should_evaporate
    /\ pc = "condensation" =>
          /\ \/ left = 0
             \/ phase_equillibrium(WaterContainer_condensate(pre, left).container)
                    .should_condensate
          /\ \/ right = condensation_bound
             \/ ~phase_equillibrium(WaterContainer_condensate(pre, right).container)
                    .should_condensate

\* The step that ends a search: the bracket is at most the tolerance wide and
\* the mass that is committed is its midpoint, at most the tolerance away
\* from either end.
C24_Commit ==
    /\ (pc = "evaporation" /\ pc' = "condensation") =>
          /\ right - left <= Tolerance
          /\ evaporation_mass' = Middle(left, right)
          /\ evaporation_mass' - left <= Tolerance
          /\ right - evaporation_mass' <= Tolerance
          /\ left <= evaporation_mass' /\ evaporation_mass' <= right
    /\ (pc = "condensation" /\ pc' = "idle") =>
          /\ right - left <= Tolerance
          /\ ~panicked' =>
                /\ pre.steam.mass + evaporation_mass - steam'.mass = Middle(left, right)
                /\ Middle(left, right) - left <= Tolerance
                /\ right - Middle(left, right) <= Tolerance

\* C24: when a binary search of evaporate_condensate() ends, its bracket is at
\* most 1e-10 kg wide and the mass committed is the midpoint (left + right) / 2,
\* where left is 0 or a candidate whose probe still demanded the transfer and
\* right is the starting bound or a candidate whose probe failed or no longer
\* demanded it: the committed mass is within 1e-10 kg of both.
C24_CommittedWithinTolerance == []C24_Bracket /\ [][C24_Commit]_vars

\* The first search is about to end between an accepted and a rejected
\* candidate that are one tolerance apart.
C24_Witness ==
    /\ pc = "evaporation"
    /\ right - left <= Tolerance
    /\ 0 < left
    /\ left < right
    /\ right < evaporation_bound
    /\ phase_equillibrium(WaterContainer_evaporate(pre, left).container).should_evaporate
    /\ ~phase_equillibrium(WaterContainer_evaporate(pre, right).container).should_evaporate

\* C25: the evaporation mass a step commits lies in [0, water.mass before the
\* step] and the condensation mass in [0, steam.mass before the step]: each
\* bound is clamped to that range before its search and the search stays
\* inside it; so water.mass >= 0 and steam.mass >= 0 after any number of
\* calls.
C25_MassesStayInRange ==
    /\ water.mass >= 0
    /\ steam.mass >= 0
    /\ pc \in {"evaporation", "condensation"} =>
          /\ 0 <= evaporation_bound /\ evaporation_bound <= pre.water.mass
          /\ 0 <= condensation_bound /\ condensation_bound <= pre.steam.mass
    /\ pc = "evaporation" =>
          /\ 0 <= left /\ left <= right /\ right <= evaporation_bound
          /\ iteration > 0 => (left <= middle /\ middle <= right)
    /\ pc = "condensation" =>
          /\ 0 <= left /\ left <= right /\ right <= condensation_bound
          /\ 0 <= evaporation_mass /\ evaporation_mass <= pre.water.mass
    /\ (pc = "idle" /\ exchanges = 1) =>
          /\ 0 <= evaporation_mass /\ evaporation_mass <= pre.water.mass
          /\ 0 <= Middle(left, right) /\ Middle(left, right) <= pre.steam.mass
          /\ ~panicked

\* A call whose evaporation bound was cut down to the whole water mass has
\* committed its exchange.
C25_Witness ==
    /\ pc = "idle"
    /\ exchanges = 1
    /\ pre.water.mass > 0
    /\ evaporation_bound = pre.water.mass
    /\ 0 < evaporation_mass
    /\ evaporation_mass < pre.water.mass
    /\ water.mass = pre.water.mass - evaporation_mass + Middle(left, right)

\* C26: equilibrium is a fixed point of the step: with a positive steam
\* volume, positive mass in both phases and the pressure neither below the
\* water's saturation pressure nor above the steam's (both flags false),
\* evaporate_condensate() commits zero evaporation and zero condensation and
\* leaves mass and temperature of both phases as they were.
C26_EquilibriumIsFixedPoint ==
    (/\ calls > 0
     /\ steam_volume(pre) > 0
     /\ pre.water.mass > 0
     /\ pre.steam.mass > 0
     /\ ~phase_equillibrium(pre).should_evaporate
     /\ ~phase_equillibrium(pre).should_condensate) =>
        /\ evaporation_bound = 0
        /\ condensation_bound = 0
        /\ iteration = 0
        /\ pc \in {"condensation", "idle"} => evaporation_mass = 0
        /\ pc = "idle" =>
              /\ exchanges = 1
              /\ ~panicked
              /\ Middle(left, right) = 0
              /\ water = pre.water
              /\ steam = pre.steam

\* A call on a container in equilibrium has returned.
C26_Witness ==
    /\ pc = "idle"
    /\ exchanges = 1
    /\ steam_volume(pre) > 0
    /\ pre.water.mass > 0
    /\ pre.steam.mass > 0
    /\ pre.steam.temperature > pre.water.temperature
    /\ ~phase_equillibrium(pre).should_evaporate
    /\ ~phase_equillibrium(pre).should_condensate
    /\ water = pre.water
    /\ steam = pre.steam

\* water.mass * water.temperature + steam.mass * steam.temperature of a
\* container, as <<q, r>> with the sum equal to q * 2^22 + r.
C_ThermalContent(c) ==
    LET a == MulDivQR(c.water.mass, c.water.temperature, 4194304)
        b == MulDivQR(c.steam.mass, c.steam.temperature, 4194304)
    IN  <<a[1] + b[1] + (a[2] + b[2]) \div 4194304, (a[2] + b[2]) % 4194304>>

\* C27: water.mass * water.temperature + steam.mass * steam.temperature is the
\* same before and after every evaporate_condensate() call, in both branches:
\* the transfer moves mass at the temperature of its source and mixes by the
\* mass-weighted mean, and the latent heat of the probes stays on the clones.
\* On the grid each of the two means is rounded down to a temperature step,
\* so the sum after the call is the sum before it less a rounding remainder
\* below one temperature step per mass step.
C27_ThermalContentKept ==
    (pc = "idle" /\ calls > 0 /\ ~panicked) =>
        LET before == C_ThermalContent(pre)
            after  == C_ThermalContent(container)
            high   == before[1] - after[1]
        IN  /\ 0 <= high /\ high <= (water.mass + steam.mass) \div 4194304 + 1
            /\ 0 <= high * 4194304 + before[2] - after[2]
            /\ high * 4194304 + before[2] - after[2] <= water.mass + steam.mass

\* A call has moved mass both ways and changed both temperatures.
C27_Witness ==
    /\ pc = "idle"
    /\ exchanges = 1
    /\ evaporation_mass > 0
    /\ Middle(left, right) > 0
    /\ water.temperature # pre.water.temperature
    /\ steam.temperature # pre.steam.temperature

\* The temperatures of the phases of a container that hold mass.
C_Temperatures(c) ==
    {w.temperature : w \in {x \in {c.water, c.steam} : x.mass > 0}}

\* C28: after any evaporate_condensate() call the temperature of every phase
\* that ends with positive mass lies between the lowest and the highest
\* temperature that the phases with positive mass had before the call.
C28_TemperatureWithinRange ==
    (pc = "idle" /\ calls > 0 /\ ~panicked) =>
        \A t \in C_Temperatures(container) :
            /\ \E low \in C_Temperatures(pre) : low <= t
            /\ \E high \in C_Temperatures(pre) : t <= high

\* A call has mixed both phases: the water has become colder and the steam
\* hotter, or the other way round, and both stay between the old two.
C28_Witness ==
    /\ pc = "idle"
    /\ exchanges = 1
    /\ water.mass > 0
    /\ steam.mass > 0
    /\ pre.water.mass > 0
    /\ pre.steam.mass > 0
    /\ pre.steam.temperature < water.temperature
    /\ water.temperature < pre.water.temperature
    /\ pre.steam.temperature < steam.temperature
    /\ steam.temperature < pre.water.temperature

\* C29: in every iteration of both binary searches
\* 0 <= left < middle < right <= starting bound <= mass of the phase, left
\* never decreases and right never increases; so no assertion reached in a
\* step fails: right > left in the loops, the mass ranges in evaporate and
\* condensate of the container and of Water on the clones, and
\* mass <= self.mass in the final removes.
C29_StrictBracket ==
    /\ []~panicked
    /\ [][(pc \in {"evaporation", "condensation"} /\ iteration' = iteration + 1) =>
              /\ 0 <= left
              /\ left < middle'
              /\ middle' < right
              /\ right <= (IF pc = "evaporation" THEN evaporation_bound
                           ELSE condensation_bound)
              /\ evaporation_bound <= pre.water.mass
              /\ condensation_bound <= pre.steam.mass
              /\ left <= left'
              /\ right' <= right]_vars

\* C30: the two searches of a step are independent: every probe of either
\* search starts from a fresh clone of the container as it was when the call
\* began; the evaporation search has ended before the condensation search
\* begins; the condensation search starts from the bound computed before
\* the evaporation search and never sees the evaporation mass, which stays
\* fixed meanwhile; no probe evaluates the state with both transfers applied.
C30_SearchesIndependent ==
    [][/\ (pc = "evaporation" /\ iteration' = iteration + 1) =>
              /\ pc' = "evaporation"
              /\ test' = WaterContainer_evaporate(pre, middle').container
              /\ test'.water.mass + test'.steam.mass =
                     pre.water.mass + pre.steam.mass
              /\ test'.steam.mass \in {pre.steam.mass, pre.steam.mass + middle'}
       /\ (pc = "evaporation" /\ pc' # "evaporation") =>
              /\ pc' = "condensation"
              /\ test' = pre
              /\ left' = 0
              /\ right' = steam_condensation_bound(pre)
              /\ iteration' = 0
       /\ (pc = "condensation" /\ iteration' = iteration + 1) =>
              /\ pc' = "condensation"
              /\ test' = WaterContainer_condensate(pre, middle').container
              /\ test'.water.mass = pre.water.mass + middle'
              /\ test'.steam.mass = pre.steam.mass - middle'
              /\ evaporation_mass' = evaporation_mass
       /\ pc = "condensation" => pc' \in {"condensation", "idle"}
       /\ pc = "idle" => pc' \in {"idle", "evaporation"}]_vars

\* After an evaporation search that found a positive mass, a condensation
\* probe has condensed its candidate in a clone of the container as it was
\* before the call.
C30_Witness ==
    /\ pc = "condensation"
    /\ iteration > 0
    /\ evaporation_mass > 0
    /\ middle > 0
    /\ test = WaterContainer_condensate(pre, middle).container
    /\ test.water.mass = pre.water.mass + middle

====
